---- MODULE Spec2Model ----
(***************************************************************************)
(* Model of customer_churn_analysis.py: clean_data and the analysis        *)
(* functions that read the cleaned table, and main's sequencing of them.   *)
(*                                                                         *)
(* A table (pandas DataFrame) is a sequence of rows; a row is a record     *)
(* column name -> value.  A missing cell (NaN/None) of a text column is    *)
(* the string "NaN".  A computed number (numpy float64) is a Float: an     *)
(* exact fraction or NaN.  monthly_charges are whole currency units.       *)
(***************************************************************************)
EXTENDS Integers, Sequences, FiniteSets, TLC

VARIABLES raw, df, pc, ret

vars == <<raw, df, pc, ret>>

(***************************************************************************)
(* Bounds of the model.                                                    *)
(***************************************************************************)
MaxRows == 2
MaxDupRows == 3
MaxStatRows == 4
MaxTenure == 74
MaxCharges == 152

NaN == "NaN"

(***************************************************************************)
(* float64 values: NaN or a fraction in lowest terms.                      *)
(***************************************************************************)
RECURSIVE Gcd(_, _)
Gcd(a, b) == IF b = 0 THEN a ELSE Gcd(b, a % b)

Abs(x) == IF x < 0 THEN -x ELSE x

NaNF == [nan |-> TRUE, num |-> 0, den |-> 1]

Frac(n, d) ==
    LET g == Gcd(Abs(n), d)
    IN  [nan |-> FALSE, num |-> n \div g, den |-> d \div g]

F(n) == Frac(n, 1)

\* x / y on numpy scalars: 0/0 and anything involving NaN is NaN (warnings
\* are silenced at line 21); y is never negative here.
FDiv(x, y) ==
    IF x.nan \/ y.nan \/ y.num = 0 THEN NaNF
    ELSE Frac(x.num * y.den, x.den * y.num)

\* x * y; NaN * 0 is NaN.
FMul(x, y) ==
    IF x.nan \/ y.nan THEN NaNF
    ELSE Frac(x.num * y.num, x.den * y.den)

FAdd(x, y) ==
    IF x.nan \/ y.nan THEN NaNF
    ELSE Frac(x.num * y.den + y.num * x.den, x.den * y.den)

(***************************************************************************)
(* Input tables.  Numeric columns hold no missing cell in this model; the  *)
(* text columns churn and contract may hold NaN.                           *)
(***************************************************************************)
TextColumns == {"churn", "contract"}

RawColumns == {"churn", "tenure_months", "monthly_charges", "senior_citizen", "contract"}

Row(c, t, m, s, k) ==
    [churn |-> c, tenure_months |-> t, monthly_charges |-> m,
     senior_citizen |-> s, contract |-> k]

Tables(R, n) == UNION {[1..k -> R] : k \in 0..n}

\* one-row tables over the whole tenure and charge range
BinTables ==
    {<<Row("Yes", t, m, 0, "Two year")>> : t \in 0..MaxTenure, m \in 0..MaxCharges}

\* tables with repeated rows, invalid labels and missing cells
DupRows ==
    {Row(c, t, 60, 0, k) : c \in {"Yes", "maybe"}, t \in {0, 12}, k \in {"One year", NaN}}

DupTables == Tables(DupRows, MaxDupRows)

\* longer tables over few rows, for the statistical tests
StatRows ==
    {Row(c, 30, 40, s, k) : c \in {"Yes", "No"}, s \in {0, 1}, k \in {"One year", NaN}}

StatTables == Tables(StatRows, MaxStatRows)

\* tables the analysis functions are run on
ApiRows ==
    {Row(c, t, m, s, k) : c \in {"Yes", "No", "yes", NaN}, t \in {0, 30},
                          m \in {40, 70}, s \in {0, 1},
                          k \in {"Month-to-month", "Two year"}}

ApiTables == Tables(ApiRows, MaxRows)

Range(s) == {s[i] : i \in DOMAIN s}

RECURSIVE SumSeq(_)
SumSeq(s) == IF s = <<>> THEN 0 ELSE Head(s) + SumSeq(Tail(s))

Column(d, col) == [i \in DOMAIN d |-> d[i][col]]

(***************************************************************************)
(* clean_data                                                              *)
(***************************************************************************)
\* df.isnull().sum().sum(): number of missing cells
isnull_sum(d) ==
    SumSeq([i \in DOMAIN d |-> Cardinality({c \in TextColumns : d[i][c] = NaN})])

\* df.duplicated(): row i repeats an earlier row (keep='first')
duplicated(d) == [i \in DOMAIN d |-> \E j \in 1..(i - 1) : d[j] = d[i]]

duplicated_sum(d) == Cardinality({i \in DOMAIN d : duplicated(d)[i]})

RECURSIVE KeepUnmarked(_, _)
KeepUnmarked(d, mark) ==
    IF d = <<>> THEN <<>>
    ELSE (IF Head(mark) THEN <<>> ELSE <<Head(d)>>)
         \o KeepUnmarked(Tail(d), Tail(mark))

\* drop_duplicates(keep='last'): row i is dropped when a later row repeats it
drop_duplicates_last(d) ==
    KeepUnmarked(d, [i \in DOMAIN d |-> \E j \in (i + 1)..Len(d) : d[j] = d[i]])

drop_duplicates(d) == KeepUnmarked(d, duplicated(d))

\* Series.map({'Yes': 1, 'No': 0}): any other label becomes NaN
churn_map(label) ==
    IF label = "Yes" THEN F(1) ELSE IF label = "No" THEN F(0) ELSE NaNF

TenureBins == <<0, 12, 24, 48, 72>>
TenureLabels == <<"0-12 months", "12-24 months", "24-48 months", "48+ months">>
ChargesBins == <<0, 50, 75, 100, 150>>
ChargesLabels == <<"Low", "Medium", "High", "Premium">>

\* pd.cut(..., right=False): intervals [bins[i], bins[i+1]) closed on the left
cut_left(x, bins, labels) ==
    LET hit == {i \in DOMAIN labels : bins[i] <= x /\ x < bins[i + 1]}
    IN  IF hit = {} THEN NaN ELSE labels[CHOOSE i \in hit : TRUE]

\* pd.cut(x, bins, labels) with the defaults right=True, include_lowest=False:
\* intervals (bins[i], bins[i+1]]; a value in none of them is NaN
cut(x, bins, labels) ==
    LET hit == {i \in DOMAIN labels : bins[i] < x /\ x <= bins[i + 1]}
    IN  IF hit = {} THEN NaN ELSE labels[CHOOSE i \in hit : TRUE]

\* lines 86-97: the three derived columns of one row
derive(r) ==
    [churn_numeric |-> churn_map(r.churn),
     tenure_category |-> cut(r.tenure_months, TenureBins, TenureLabels),
     charges_category |-> cut(r.monthly_charges, ChargesBins, ChargesLabels)] @@ r

\* the table clean_data returns
cleaned(d) ==
    LET kept == IF duplicated_sum(d) > 0 THEN drop_duplicates(d) ELSE d
    IN  [i \in DOMAIN kept |-> derive(kept[i])]

\* what clean_data prints: the missing-cell count and the duplicate count
clean_report(d) ==
    [fn |-> "clean_data", raised |-> "",
     missing |-> isnull_sum(d), duplicates |-> duplicated_sum(d)]

\* clean_data(df).  drop_duplicates returns a new table; without duplicates the
\* columns are assigned on the caller's own table.
clean_data ==
    /\ pc = "clean_data"
    /\ df' = cleaned(raw)
    /\ raw' = IF duplicated_sum(raw) > 0 THEN raw ELSE df'
    /\ ret' = clean_report(raw)
    /\ pc' = "api"

\* main, line 523: df = clean_data(df)
main_clean_data ==
    /\ pc = "main:clean_data"
    /\ df' = cleaned(raw)
    /\ raw' = IF duplicated_sum(raw) > 0 THEN raw ELSE df'
    /\ ret' = clean_report(raw)
    /\ pc' = "main:churn_analysis"

NoRet == [fn |-> "", raised |-> ""]

InitClean ==
    /\ raw \in BinTables \cup DupTables
    /\ df = <<>>
    /\ pc = "clean_data"
    /\ ret = NoRet

NextClean == clean_data

SpecClean == InitClean /\ [][NextClean]_vars

(***************************************************************************)
(* pandas reductions                                                       *)
(***************************************************************************)
RECURSIVE FSum(_)
FSum(s) == IF s = <<>> THEN F(0) ELSE FAdd(Head(s), FSum(Tail(s)))

NotNaN(x) == ~x.nan

\* Series.sum(): NaN skipped, 0 for an empty series
sum(s) == FSum(SelectSeq(s, NotNaN))

\* Series.mean(): NaN skipped, NaN for an empty (or all-NaN) series
mean(s) ==
    LET v == SelectSeq(s, NotNaN)
    IN  IF v = <<>> THEN NaNF ELSE FDiv(FSum(v), F(Len(v)))

IsYes(r) == r.churn = "Yes"
IsNo(r) == r.churn = "No"

\* (df['churn'] == 'Yes') as a 0/1 series
yes_mask(d) == [i \in DOMAIN d |-> IF IsYes(d[i]) THEN F(1) ELSE F(0)]

charges(d) == [i \in DOMAIN d |-> F(d[i].monthly_charges)]

\* df['churn'].value_counts(): the labels present (NaN is not counted)
value_counts(d) ==
    [l \in {d[i].churn : i \in DOMAIN d} \ {NaN} |->
        Cardinality({i \in DOMAIN d : d[i].churn = l})]

\* one group of df.groupby(col)['churn_numeric'].mean() * 100
group(d, col, k) ==
    LET rows == SelectSeq(d, LAMBDA r : r[col] = k)
    IN  [key |-> k, size |-> Len(rows),
         churned |-> sum(Column(rows, "churn_numeric")),
         rate |-> FMul(mean(Column(rows, "churn_numeric")), F(100))]

\* df.groupby(col)[...]: one group per key, in key order; rows whose key is
\* NaN are in no group.  observed = FALSE (categorical column) also lists the
\* categories no row has.
groupby(d, col, order, observed) ==
    SelectSeq([i \in DOMAIN order |-> group(d, col, order[i])],
              LAMBDA g : ~observed \/ g.size > 0)

SeniorKeys == <<0, 1>>
ContractKeys == <<"Month-to-month", "One year", "Two year">>

Raise(f, e) == [fn |-> f, raised |-> e]

(***************************************************************************)
(* churn_analysis                                                          *)
(***************************************************************************)
\* line 124
churn_analysis_rate(d) == FMul(mean(yes_mask(d)), F(100))

churn_analysis_ret(d) ==
    IF "No" \notin DOMAIN value_counts(d) \/ "Yes" \notin DOMAIN value_counts(d)
    THEN Raise("churn_analysis", "KeyError")
    ELSE [fn |-> "churn_analysis", raised |-> "",
          churn_rate |-> churn_analysis_rate(d)]

(***************************************************************************)
(* demographic_analysis, service_analysis (the groupings by gender, partner,*)
(* internet_service and payment_method are the same expression on columns  *)
(* the model does not carry)                                               *)
(***************************************************************************)
demographic_analysis_ret(d) ==
    LET senior_churn == groupby(d, "senior_citizen", SeniorKeys, TRUE)
    IN  IF \A k \in {0, 1} : \E i \in DOMAIN senior_churn : senior_churn[i].key = k
        THEN [fn |-> "demographic_analysis", raised |-> "",
              senior_churn |-> senior_churn]
        ELSE Raise("demographic_analysis", "KeyError")

service_analysis_ret(d) ==
    [fn |-> "service_analysis", raised |-> "",
     contract_churn |-> groupby(d, "contract", ContractKeys, TRUE)]

(***************************************************************************)
(* tenure_revenue_analysis                                                 *)
(***************************************************************************)
\* line 202
revenue_at_risk(d) == sum(charges(SelectSeq(d, IsYes)))

\* line 203
total_revenue(d) == sum(charges(d))

\* tenure_category is categorical: groupby lists unobserved categories or
\* not, by the pandas default in force
tenure_revenue_analysis_rets(d) ==
    {[fn |-> "tenure_revenue_analysis", raised |-> "",
      tenure_churn |-> groupby(d, "tenure_category", TenureLabels, observed),
      avg_charges_churned |-> mean(charges(SelectSeq(d, IsYes))),
      avg_charges_retained |-> mean(charges(SelectSeq(d, IsNo))),
      revenue_at_risk |-> revenue_at_risk(d),
      total_revenue |-> total_revenue(d),
      revenue_pct |-> FMul(FDiv(revenue_at_risk(d), total_revenue(d)), F(100))]
     : observed \in BOOLEAN}

(***************************************************************************)
(* statistical_tests.  The statistics themselves are scipy's; the model    *)
(* keeps when they are defined, when they raise, and the p-value as any of *)
(* a few representative values.                                            *)
(***************************************************************************)
Alpha == Frac(5, 100)

PValues == {Frac(1, 100), Frac(5, 100), Frac(1, 2)}

\* x <= y in place of x < y
FLessEq(x, y) == ~x.nan /\ ~y.nan /\ x.num * y.den <= y.num * x.den

FLess(x, y) == ~x.nan /\ ~y.nan /\ x.num * y.den < y.num * x.den

\* stats.ttest_ind: NaN unless both samples have two observations or more
ttest_pvalues(d) ==
    IF Len(SelectSeq(d, IsYes)) >= 2 /\ Len(SelectSeq(d, IsNo)) >= 2
    THEN PValues \cup {NaNF} ELSE {NaNF}

\* pd.crosstab(df['contract'], df['churn']): rows with a NaN in either column
\* are left out
crosstab_rows(d) == SelectSeq(d, LAMBDA r : r.contract # NaN /\ r.churn # NaN)

crosstab_dof(d) ==
    (Cardinality({r.contract : r \in Range(crosstab_rows(d))}) - 1)
        * (Cardinality({r.churn : r \in Range(crosstab_rows(d))}) - 1)

\* stats.chi2_contingency: p = 1 with zero degrees of freedom
chi2_pvalues(d) == IF crosstab_dof(d) = 0 THEN {F(1)} ELSE PValues

statistical_tests_rets(d) ==
    IF crosstab_rows(d) = <<>>
    THEN {[fn |-> "statistical_tests", raised |-> "ValueError",
           tests_run |-> <<"ttest_ind">>,
           p_value |-> p, t_significant |-> FLess(p, Alpha)]
          : p \in ttest_pvalues(d)}
    ELSE {[fn |-> "statistical_tests", raised |-> "",
           tests_run |-> <<"ttest_ind", "chi2_contingency", "corr">>,
           p_value |-> p, t_significant |-> FLess(p, Alpha),
           p_chi |-> q, chi_significant |-> FLess(q, Alpha),
           dof |-> crosstab_dof(d)]
          : p \in ttest_pvalues(d), q \in chi2_pvalues(d)}

(***************************************************************************)
(* create_visualizations: plotting only, no result                         *)
(***************************************************************************)
create_visualizations_ret(d) == [fn |-> "create_visualizations", raised |-> ""]

(***************************************************************************)
(* generate_insights                                                       *)
(***************************************************************************)
\* line 423
insights_churn_rate(d) == FMul(mean(yes_mask(d)), F(100))

\* lines 426-430: churn rate of a subset
subset_rate(rows) == FMul(mean(Column(rows, "churn_numeric")), F(100))

\* lines 494-496
monthly_revenue_loss(d) ==
    FMul(mean(charges(SelectSeq(d, IsYes))), sum(yes_mask(d)))

generate_insights_ret(d) ==
    [fn |-> "generate_insights", raised |-> "",
     churn_rate |-> insights_churn_rate(d),
     mtm_churn |-> subset_rate(SelectSeq(d, LAMBDA r : r.contract = "Month-to-month")),
     senior_churn |-> subset_rate(SelectSeq(d, LAMBDA r : r.senior_citizen = 1)),
     new_customer_churn |-> subset_rate(SelectSeq(d, LAMBDA r : r.tenure_months <= 12)),
     churned_count |-> sum(yes_mask(d)),
     monthly_revenue_loss |-> monthly_revenue_loss(d),
     annual_revenue_loss |-> FMul(monthly_revenue_loss(d), F(12))]

(***************************************************************************)
(* The functions called on a cleaned table, in any order                   *)
(***************************************************************************)
Return(r) == pc = "api" /\ ret' = r /\ UNCHANGED <<raw, df, pc>>

churn_analysis == Return(churn_analysis_ret(df))

demographic_analysis == Return(demographic_analysis_ret(df))

service_analysis == Return(service_analysis_ret(df))

tenure_revenue_analysis == \E r \in tenure_revenue_analysis_rets(df) : Return(r)

statistical_tests == \E r \in statistical_tests_rets(df) : Return(r)

create_visualizations == Return(create_visualizations_ret(df))

generate_insights == Return(generate_insights_ret(df))

Init ==
    /\ raw \in ApiTables \cup StatTables
    /\ df = <<>>
    /\ pc = "clean_data"
    /\ ret = NoRet

Next ==
    \/ clean_data
    \/ churn_analysis
    \/ demographic_analysis
    \/ service_analysis
    \/ tenure_revenue_analysis
    \/ statistical_tests
    \/ create_visualizations
    \/ generate_insights

Spec == Init /\ [][Next]_vars

(***************************************************************************)
(* main: the same functions in sequence; an exception ends the run         *)
(***************************************************************************)
Step(here, r, next) ==
    /\ pc = here
    /\ ret' = r
    /\ pc' = IF r.raised # "" THEN "main:raised" ELSE next
    /\ UNCHANGED <<raw, df>>

main_churn_analysis ==
    Step("main:churn_analysis", churn_analysis_ret(df), "main:demographic_analysis")

main_demographic_analysis ==
    Step("main:demographic_analysis", demographic_analysis_ret(df),
         "main:service_analysis")

main_service_analysis ==
    Step("main:service_analysis", service_analysis_ret(df),
         "main:tenure_revenue_analysis")

main_tenure_revenue_analysis ==
    \E r \in tenure_revenue_analysis_rets(df) :
        Step("main:tenure_revenue_analysis", r, "main:statistical_tests")

main_statistical_tests ==
    \E r \in statistical_tests_rets(df) :
        Step("main:statistical_tests", r, "main:create_visualizations")

main_create_visualizations ==
    Step("main:create_visualizations", create_visualizations_ret(df),
         "main:generate_insights")

main_generate_insights ==
    Step("main:generate_insights", generate_insights_ret(df), "main:done")

InitMain ==
    /\ raw \in ApiTables \cup StatTables
    /\ df = <<>>
    /\ pc = "main:clean_data"
    /\ ret = NoRet

NextMain ==
    \/ main_clean_data
    \/ main_churn_analysis
    \/ main_demographic_analysis
    \/ main_service_analysis
    \/ main_tenure_revenue_analysis
    \/ main_statistical_tests
    \/ main_create_visualizations
    \/ main_generate_insights

SpecMain == InitMain /\ [][NextMain]_vars

(***************************************************************************)
(* Properties of clean_data (checked under SpecClean)                      *)
(***************************************************************************)
Cleaned == pc \notin {"clean_data", "main:clean_data"}

InteriorBoundaries == 2..4

\* the raw columns of a cleaned table
RawForm(d) == [i \in DOMAIN d |-> [c \in RawColumns |-> d[i][c]]]

\* C1 as stated: a tenure_months (monthly_charges) equal to an interior
\* boundary of the bins gets the bucket whose lower bound is that boundary;
\* tenure_months = 12 gets '12-24 months'.
C1_BoundaryUpper ==
    Cleaned =>
        \A i \in DOMAIN df : \A b \in InteriorBoundaries :
            /\ df[i].tenure_months = TenureBins[b]
                   => df[i].tenure_category = TenureLabels[b]
            /\ df[i].monthly_charges = ChargesBins[b]
                   => df[i].charges_category = ChargesLabels[b]

\* C1 amended: a value equal to an interior boundary gets the bucket whose
\* upper bound is that boundary (the lower of the two adjoining buckets);
\* tenure_months = 12 gets '0-12 months'.
C1_BoundaryLower ==
    Cleaned =>
        \A i \in DOMAIN df : \A b \in InteriorBoundaries :
            /\ df[i].tenure_months = TenureBins[b]
                   => df[i].tenure_category = TenureLabels[b - 1]
            /\ df[i].monthly_charges = ChargesBins[b]
                   => df[i].charges_category = ChargesLabels[b - 1]

C1_Witness ==
    /\ Cleaned
    /\ \E i \in DOMAIN df :
           /\ df[i].tenure_months = 12
           /\ df[i].tenure_category = "0-12 months"
           /\ df[i].monthly_charges = 100
           /\ df[i].charges_category = "High"

\* C2 as stated: every tenure_months in [0, 72] gets one of the four tenure
\* buckets, and tenure_months = 0 gets '0-12 months'.
C2_BinningTotal ==
    Cleaned =>
        \A i \in DOMAIN df :
            (df[i].tenure_months >= 0 /\ df[i].tenure_months <= 72) =>
                /\ df[i].tenure_category \in Range(TenureLabels)
                /\ df[i].tenure_months = 0 => df[i].tenure_category = "0-12 months"

\* the data-quality issues clean_data reports (lines 71-83 print the missing
\* cells and the duplicates; nothing else is reported)
ReportedKinds ==
    IF ret.fn # "clean_data" THEN {}
    ELSE (IF ret.missing > 0 THEN {"missing_field"} ELSE {})
         \cup (IF ret.duplicates > 0 THEN {"duplicates"} ELSE {})

OutOfRange(r) == r.tenure_months > 72 \/ r.monthly_charges > 150

\* C3 as stated: a record with tenure_months > 72 or monthly_charges > 150 is
\* reported as out_of_range and kept with that bucket set to 'unknown'.
C3_OutOfRangeFlagged ==
    Cleaned =>
        \A i \in DOMAIN df :
            /\ OutOfRange(df[i]) => "out_of_range" \in ReportedKinds
            /\ df[i].tenure_months > 72 => df[i].tenure_category = "unknown"
            /\ df[i].monthly_charges > 150 => df[i].charges_category = "unknown"

HasMissingField(r) == \E c \in TextColumns : r[c] = NaN

\* C4 as stated: every record of the returned dataset has churn 'Yes' or 'No'
\* (churn_numeric 0 or 1) and no missing field; other rows are excluded and
\* reported.
C4_DatasetValid ==
    Cleaned =>
        \A i \in DOMAIN df :
            /\ df[i].churn \in {"Yes", "No"}
            /\ df[i].churn_numeric \in {F(0), F(1)}
            /\ ~HasMissingField(df[i])

\* index of the first occurrence of row r in table d
FirstIndex(d, r) == CHOOSE i \in DOMAIN d : d[i] = r /\ \A j \in 1..(i - 1) : d[j] # r

\* C5: the returned dataset holds each distinct input row once, in the order
\* of first occurrence, and cleaning its raw form again removes nothing and
\* returns the identical dataset.
C5_DedupFirstIdempotent ==
    Cleaned =>
        LET in == RawForm(raw)
            out == RawForm(df)
        IN  /\ Range(out) = Range(in)
            /\ \A i, j \in DOMAIN out :
                   i < j => FirstIndex(in, out[i]) < FirstIndex(in, out[j])
            /\ duplicated_sum(out) = 0
            /\ Len(cleaned(out)) = Len(df)
            /\ cleaned(out) = df

C5_Witness ==
    /\ Cleaned
    /\ Len(raw) = 3
    /\ raw[1] = raw[3]
    /\ raw[1] # raw[2]
    /\ df = <<derive(raw[1]), derive(raw[2])>>
    /\ ret.duplicates = 1

(***************************************************************************)
(* Properties of the analysis functions (checked under Spec)               *)
(***************************************************************************)
\* the groups of a grouping hold every record once: sizes add up to the
\* dataset size, churn counts to the number of churned records
Partitions(groups) ==
    /\ SumSeq(Column(groups, "size")) = Len(df)
    /\ FSum(Column(groups, "churned")) = sum(yes_mask(df))

\* C6 as stated: in every grouping of the cleaned dataset each record is in
\* exactly one group; group sizes sum to the dataset size and group churn
\* counts to the total churn count.
C6_SegmentPartition ==
    /\ ret.fn = "tenure_revenue_analysis" => Partitions(ret.tenure_churn)
    /\ (ret.fn = "demographic_analysis" /\ ret.raised = "")
           => Partitions(ret.senior_churn)
    /\ ret.fn = "service_analysis" => Partitions(ret.contract_churn)

\* sum of monthly_charges over the churned records
ChurnedCharges ==
    SumSeq([i \in DOMAIN df |-> IF df[i].churn = "Yes" THEN df[i].monthly_charges ELSE 0])

\* C7 as stated: the monthly loss of generate_insights is the sum of
\* monthly_charges over churned records (0 without any), the annual loss is 12
\* times it, and it is the number tenure_revenue_analysis computes.
C7_RevenueAtRisk ==
    ret.fn = "generate_insights" =>
        /\ ret.monthly_revenue_loss = F(ChurnedCharges)
        /\ ret.annual_revenue_loss = F(12 * ChurnedCharges)
        /\ ret.monthly_revenue_loss = revenue_at_risk(df)

ChurnedCount == Cardinality({i \in DOMAIN df : df[i].churn = "Yes"})

\* C8 as stated: on a dataset with a record or more, churn_analysis computes
\* the overall churn rate, equal to the one of generate_insights and to
\* (records with churn 'Yes') / (records), here as a percentage.
C8_OverallRate ==
    (ret.fn = "churn_analysis" /\ Len(df) >= 1) =>
        /\ ret.raised = ""
        /\ ret.churn_rate = Frac(100 * ChurnedCount, Len(df))
        /\ ret.churn_rate = insights_churn_rate(df)

\* C9 as stated: on a dataset without records the overall churn rate is a
\* result and not an exception, every grouping is empty, and the revenue
\* figures are computed without an error.
C9_EmptyDataset ==
    (pc = "api" /\ Len(df) = 0) =>
        /\ ret.fn = "churn_analysis" => ret.raised = ""
        /\ ret.fn = "demographic_analysis" =>
               (ret.raised = "" /\ ret.senior_churn = <<>>)
        /\ ret.fn = "service_analysis" => ret.contract_churn = <<>>
        /\ ret.fn = "tenure_revenue_analysis" =>
               (ret.tenure_churn = <<>> /\ ret.raised = "")

(***************************************************************************)
(* Properties of main (checked under SpecMain)                             *)
(***************************************************************************)
\* C10 as stated: the run of main reaches completion on every table; no
\* failure of an analysis step or of a statistical test ends it.
C10_RunCompletes == pc # "main:raised"

\* C10, second part as stated: when a test of statistical_tests fails, the
\* remaining tests have run all the same and main goes on.
C10_TestFailureScoped ==
    ret.fn = "statistical_tests" =>
        /\ ret.tests_run = <<"ttest_ind", "chi2_contingency", "corr">>
        /\ pc = "main:create_visualizations"

\* C10 as stated, both parts
C10_FailureScoping == C10_RunCompletes /\ C10_TestFailureScoped

\* the groupings of C6, one by one
C6_TenureGroups == ret.fn = "tenure_revenue_analysis" => Partitions(ret.tenure_churn)

C6_SeniorGroups ==
    (ret.fn = "demographic_analysis" /\ ret.raised = "") => Partitions(ret.senior_churn)

C6_ContractGroups == ret.fn = "service_analysis" => Partitions(ret.contract_churn)

(***************************************************************************)
(* The caller's table across clean_data (checked under SpecClean)          *)
(***************************************************************************)
DerivedColumns == {"churn_numeric", "tenure_category", "charges_category"}

\* C11 as stated: the table passed to clean_data has the same rows and the
\* same columns afterwards; the derived columns are in the returned dataset
\* only.
C11_InputUnchanged ==
    \A i \in DOMAIN raw : DOMAIN raw[i] = RawColumns

\* C11 when the input has duplicate rows: drop_duplicates copies, and the
\* caller's table keeps its columns.
C11_InputWithDuplicates ==
    (Cleaned /\ ret.fn = "clean_data" /\ ret.duplicates > 0) =>
        \A i \in DOMAIN raw : DOMAIN raw[i] = RawColumns

(***************************************************************************)
(* statistical_tests alone, on tables where both tests are defined         *)
(***************************************************************************)
TestRows ==
    {Row(c, 30, 40, 1, k) : c \in {"Yes", "No"}, k \in {"Month-to-month", "Two year"}}

TestTables == Tables(TestRows, MaxStatRows)

InitTests ==
    /\ raw \in TestTables
    /\ df = <<>>
    /\ pc = "clean_data"
    /\ ret = NoRet

NextTests == clean_data \/ statistical_tests

SpecTests == InitTests /\ [][NextTests]_vars

\* p < 0.05 on a fraction, NaN being below nothing
Below5Percent(p) == ~p.nan /\ 20 * p.num < p.den

\* C12: the t-test and the chi-square test are reported significant exactly
\* when the p-value is strictly below 0.05; 0.05 itself and NaN are reported
\* not significant.
C12_SignificanceStrict ==
    ret.fn = "statistical_tests" =>
        /\ ret.t_significant <=> Below5Percent(ret.p_value)
        /\ ret.raised = "" => (ret.chi_significant <=> Below5Percent(ret.p_chi))

C12_Witness ==
    /\ ret.fn = "statistical_tests"
    /\ ret.raised = ""
    /\ ret.p_value = Frac(5, 100)
    /\ ~ret.t_significant
    /\ ret.p_chi = Frac(1, 100)
    /\ ret.chi_significant

C12_WitnessBoundaryChi ==
    /\ ret.fn = "statistical_tests"
    /\ ret.raised = ""
    /\ ret.p_chi = Frac(5, 100)
    /\ ~ret.chi_significant
    /\ ret.p_value = NaNF

====
